---- MODULE Spec2Model ----
(***************************************************************************)
(* Model of the THRML API server (thrml_api/app.py): the two sampling      *)
(* handlers sample_ising and sample_ising_stream and the block-Gibbs       *)
(* sampler they drive.  Weights and biases are kept in half units (the     *)
(* default weight 0.5 is 1), so that twice the local field is an integer;  *)
(* probabilities and uniform draws are in thousandths.                     *)
(***************************************************************************)
EXTENDS Integers, Sequences, FiniteSets, TLC

\* ---------------------------------------------------------------- bounds
MaxNodes == 3
MaxWarmup == 1
MaxSamples == 2
MaxSteps == 1
MaxCalls == 2

WeightVals == {-2, 2}
BiasVals == {-1, 1}
Betas == {1}
Seeds == {0, 42}

\* ------------------------------------------------------ program constants
DefaultWeight == 1
DefaultBias == 0
KeyMod == 65537
Scale == 1000

\* ---------------------------------------------------------------- helpers
Range(s) == {s[i] : i \in DOMAIN s}

Last(s) == s[Len(s)]

\* [v] * n of Python: n copies of v, empty when n <= 0
Repeat(v, n) == [i \in 1..n |-> v]

\* data.get(field, default) on an optional payload field
Get(field, default) == IF field.has THEN field.val ELSE default

\* seq[start::step] of Python for start >= 0, step >= 1
Slice(s, start, step) ==
  IF Len(s) <= start THEN << >>
  ELSE [k \in 1..((Len(s) - start + step - 1) \div step) |-> s[start + (k - 1) * step + 1]]

\* nodes = [SpinNode() for _ in range(n_nodes)]; a node is its index
Nodes(n) == [i \in 1..n |-> i - 1]

\* edges = [(nodes[i], nodes[i+1]) for i in range(n_nodes - 1)]
Edges(nodes) == [i \in 1..(Len(nodes) - 1) |-> <<nodes[i], nodes[i + 1]>>]

\* free_blocks = [Block(nodes[::2]), Block(nodes[1::2])]
FreeBlocksHalves(nodes) ==
  << SubSeq(nodes, 1, (Len(nodes) + 1) \div 2),
     SubSeq(nodes, (Len(nodes) + 1) \div 2 + 1, Len(nodes)) >>

FreeBlocksSkip(nodes) == << Slice(nodes, 0, 2), Slice(nodes, 2, 2) >>

FreeBlocks(nodes) == << Slice(nodes, 0, 2), Slice(nodes, 1, 2) >>

\* [Block(nodes)]: the block whose values sample_states records
ObservedEven(nodes) == Slice(nodes, 0, 2)

Observed(nodes) == nodes

\* IsingEBM(nodes, edges, biases, weights, beta): construction succeeds
\* only when the array lengths match the node and edge counts
ModelOk(nodes, edges, biases, weights) ==
  Len(biases) = Len(nodes) /\ Len(weights) = Len(edges)


\* jax.random.split(key, n)[i], i in 1..n
Split(key, n, i) == (key * 75 + 74 + i * 37) % KeyMod

\* uniform draw in thousandths for slot i of a key
Uniform(key, i) == (((key + i * 101) * 75 + 74) % KeyMod) % Scale

\* sigmoid(x) in thousandths for an integer x
SigmoidPos(x) ==
  CASE x = 0 -> 500 [] x = 1 -> 731 [] x = 2 -> 881 [] x = 3 -> 953
    [] x = 4 -> 982 [] x = 5 -> 993 [] x = 6 -> 998 [] OTHER -> 999

Sigmoid(x) == IF x >= 0 THEN SigmoidPos(x) ELSE Scale - SigmoidPos(-x)

\* (local_field, uniform_draw) -> spin
Spin(x2, u) == IF u < Sigmoid(x2) THEN 1 ELSE -1

\* twice the local field of node i: 2h = beta * (2 b_i + sum 2 w_e s_j)
Field2(m, s, i) ==
  LET left == IF i >= 1 THEN m.weights[i] * s[i] ELSE 0
      right == IF i + 2 <= Len(m.nodes) THEN m.weights[i + 1] * s[i + 2] ELSE 0
  IN m.beta * (m.biases[i + 1] + left + right)

\* hinton_init: every node starts at the sign its bias favours, ties
\* broken by a draw from the initialisation key
HintonInit(k, m) ==
  [j \in 1..Len(m.nodes) |->
     LET b == m.beta * m.biases[j]
     IN IF b > 0 THEN 1 ELSE IF b < 0 THEN -1 ELSE Spin(0, Uniform(k, j))]

\* state of node i after resampling it in state s under block key k
Resample(m, s, k, i) == Spin(Field2(m, s, i), Uniform(k, i + 1))

\* the synchronous update of a whole block from the pre-update state
BlockSync(m, s, k, block) ==
  [j \in 1..Len(s) |-> IF (j - 1) \in Range(block) THEN Resample(m, s, k, j - 1) ELSE s[j]]

\* values of the observed block's nodes in joint state s
Snapshot(s, obs) == [k \in 1..Len(obs) |-> s[obs[k] + 1]]

\* an optional value: Python's None or a value
None == [has |-> FALSE, val |-> << >>]

Some(v) == [has |-> TRUE, val |-> v]

\* ------------------------------------------------------------- payloads
\* arrays of length len alternating between a and b
Arr(len, a, b) == [i \in 1..len |-> IF i % 2 = 1 THEN a ELSE b]

Arrays(vals) == {Arr(len, a, b) : len \in 0..MaxNodes, a \in vals, b \in vals}

Optional(S) == {None} \cup {Some(v) : v \in S}

\* an array that fits a chain of n entries or misses it by one entry
Near(field, n) == field.has => Len(field.val) \in (n - 1)..(n + 1)

Payloads ==
  {p \in [n_nodes : 1..MaxNodes,
          weights : Optional(Arrays(WeightVals)),
          biases : Optional(Arrays(BiasVals)),
          beta : Betas,
          n_warmup : 0..MaxWarmup,
          n_samples : 0..MaxSamples,
          steps_per_sample : 0..MaxSteps,
          random_key : Seeds] :
     Near(p.weights, p.n_nodes - 1) /\ Near(p.biases, p.n_nodes)}

\* lines 41-56 and 116-126: the parameters extracted from the payload and
\* the model built from them
WeightsTruncated(data) ==
  LET w == Get(data.weights, Repeat(DefaultWeight, data.n_nodes - 1))
  IN IF Len(w) > data.n_nodes - 1 THEN SubSeq(w, 1, data.n_nodes - 1) ELSE w

Weights(data) == Get(data.weights, Repeat(DefaultWeight, data.n_nodes - 1))

Biases(data) == Get(data.biases, Repeat(DefaultBias, data.n_nodes))

Model(data) ==
  [nodes |-> Nodes(data.n_nodes),
   edges |-> Edges(Nodes(data.n_nodes)),
   biases |-> Biases(data),
   weights |-> Weights(data),
   beta |-> data.beta,
   free_blocks |-> FreeBlocks(Nodes(data.n_nodes)),
   observed |-> Observed(Nodes(data.n_nodes))]

NoModel ==
  [nodes |-> << >>, edges |-> << >>, biases |-> << >>, weights |-> << >>,
   beta |-> 0, free_blocks |-> << << >>, << >> >>, observed |-> << >>]

Valid(data) ==
  LET mm == Model(data) IN ModelOk(mm.nodes, mm.edges, mm.biases, mm.weights)

\* SamplingSchedule(n_warmup=..., n_samples=..., steps_per_sample=...)
SamplingSchedule(w, n, k) == [n_warmup |-> w, n_samples |-> n, steps_per_sample |-> k]

IsingScheduleSwapped(data) ==
  SamplingSchedule(data.steps_per_sample, data.n_samples, data.n_warmup)

IsingScheduleNoWarmup(data) ==
  SamplingSchedule(0, data.n_samples, data.steps_per_sample)

IsingSchedule(data) ==
  SamplingSchedule(data.n_warmup, data.n_samples, data.steps_per_sample)

StreamScheduleWarm(data) == SamplingSchedule(data.n_warmup, 1, data.steps_per_sample)

StreamSchedule(data) == SamplingSchedule(0, 1, data.steps_per_sample)

NoSchedule == SamplingSchedule(0, 0, 0)

\* ---------------------------------------------------------------- state
VARIABLES
  cfg,        \* the payload the client sends
  calls,      \* number of requests received so far
  endpoint,   \* the handler serving the current request
  phase,      \* "Idle", "Warmup", "Sampling" or "Done"
  m,          \* the energy model and block partition of the request
  sched,      \* the sampling schedule of the request
  state,      \* the chain's joint state
  key,        \* the sampling key, split once per block update
  warm,       \* warmup sweeps done
  stepsDone,  \* sweeps done since the last recorded sample
  recorded,   \* the output sequence
  blk,        \* block being updated within the sweep, 0 between sweeps
  pending,    \* nodes of the block not yet resampled
  blockKey,   \* key of the block update in progress
  pre,        \* joint state when the block update began
  hist,       \* hist[k + 1] is the joint state after k sweeps
  responses   \* the responses returned so far, in order

vars == <<cfg, calls, endpoint, phase, m, sched, state, key, warm, stepsDone,
          recorded, blk, pending, blockKey, pre, hist, responses>>

sampler == <<state, key, warm, stepsDone, recorded, blk, pending, blockKey, pre, hist>>

Init ==
  /\ cfg \in Payloads
  /\ calls = 0
  /\ endpoint = "none"
  /\ phase = "Idle"
  /\ m = NoModel
  /\ sched = NoSchedule
  /\ state = << >>
  /\ key = 0
  /\ warm = 0
  /\ stepsDone = 0
  /\ recorded = << >>
  /\ blk = 0
  /\ pending = {}
  /\ blockKey = 0
  /\ pre = << >>
  /\ hist = << >>
  /\ responses = << >>

\* ------------------------------------------------------------- handlers
\* jax.random.key(random_key)
PRNGKeyGlobal(seed) == (seed + calls) % KeyMod

PRNGKey(seed) == seed % KeyMod

\* the except branch of both handlers (lines 100-105, 148-153)
ErrorResponse(ep) ==
  [endpoint |-> ep, success |-> FALSE, error |-> "array length mismatch",
   error_type |-> "ValueError", status |-> 400]

IsingResponseCount(data, mm, samples) ==
  [endpoint |-> "ising",
   success |-> TRUE,
   samples |-> samples,
   final_state |-> IF Len(samples) > 0 THEN Some(Last(samples)) ELSE None,
   n_samples |-> IF Len(samples) > 0 THEN Len(samples[1]) ELSE 0,
   model_info |-> [n_nodes |-> data.n_nodes, beta |-> mm.beta, n_edges |-> Len(mm.edges)],
   status |-> 200]

IsingResponseFirst(data, mm, samples) ==
  [endpoint |-> "ising",
   success |-> TRUE,
   samples |-> samples,
   final_state |-> IF Len(samples) > 0 THEN Some(samples[1]) ELSE None,
   n_samples |-> Len(samples),
   model_info |-> [n_nodes |-> data.n_nodes, beta |-> mm.beta, n_edges |-> Len(mm.edges)],
   status |-> 200]

\* lines 81-98: the response of sample_ising
IsingResponse(data, mm, samples) ==
  [endpoint |-> "ising",
   success |-> TRUE,
   samples |-> samples,
   final_state |-> IF Len(samples) > 0 THEN Some(Last(samples)) ELSE None,
   n_samples |-> Len(samples),
   model_info |-> [n_nodes |-> data.n_nodes, beta |-> mm.beta, n_edges |-> Len(mm.edges)],
   status |-> 200]

\* lines 142-146: the response of sample_ising_stream
StreamResponse(samples) ==
  [endpoint |-> "stream",
   success |-> TRUE,
   sample |-> IF Len(samples) > 0 THEN Some(samples[1]) ELSE None,
   state |-> IF Len(samples) > 0 THEN Some(Last(samples)) ELSE None,
   status |-> 200]

\* entry of sample_states: the chain starts from init_state under k_samp
Start(ep, schedule) ==
  LET mm == Model(cfg)
      k == PRNGKey(cfg.random_key)
      init_state == HintonInit(Split(k, 2, 1), mm)
  IN /\ endpoint' = ep
     /\ m' = mm
     /\ sched' = schedule
     /\ state' = init_state
     /\ key' = Split(k, 2, 2)
     /\ phase' = IF schedule.n_warmup > 0 THEN "Warmup" ELSE "Sampling"
     /\ warm' = 0
     /\ stepsDone' = 0
     /\ recorded' = << >>
     /\ blk' = 0
     /\ pending' = {}
     /\ blockKey' = 0
     /\ pre' = init_state
     /\ hist' = <<init_state>>

\* a request whose model construction raises: the handler answers 400
Reject(ep) ==
  /\ phase = "Idle"
  /\ calls < MaxCalls
  /\ ~Valid(cfg)
  /\ calls' = calls + 1
  /\ responses' = Append(responses, ErrorResponse(ep))
  /\ UNCHANGED <<cfg, endpoint, phase, m, sched, sampler>>

\* POST /sample/ising, lines 38-79 up to the call of sample_states
SampleIsing ==
  /\ phase = "Idle"
  /\ calls < MaxCalls
  /\ Valid(cfg)
  /\ calls' = calls + 1
  /\ Start("ising", IsingSchedule(cfg))
  /\ UNCHANGED <<cfg, responses>>

SampleIsingError == Reject("ising")

\* POST /sample/ising/stream, lines 113-140 up to the call of sample_states
SampleIsingStream ==
  /\ phase = "Idle"
  /\ calls < MaxCalls
  /\ Valid(cfg)
  /\ calls' = calls + 1
  /\ Start("stream", StreamSchedule(cfg))
  /\ UNCHANGED <<cfg, responses>>

SampleIsingStreamError == Reject("stream")

\* -------------------------------------------------------------- sampler
InSweep == blk > 0

BeginBlock(b) ==
  /\ blk' = b
  /\ pending' = Range(m.free_blocks[b])
  /\ blockKey' = Split(key, 2, 2)
  /\ key' = Split(key, 2, 1)
  /\ pre' = state

\* a sweep begins: a warmup sweep, or a sweep towards the next sample
StartSweep ==
  /\ ~InSweep
  /\ \/ phase = "Warmup" /\ warm < sched.n_warmup
     \/ /\ phase = "Sampling"
        /\ Len(recorded) < sched.n_samples
        /\ stepsDone < sched.steps_per_sample
  /\ BeginBlock(1)
  /\ UNCHANGED <<cfg, calls, endpoint, phase, m, sched, state, warm, stepsDone,
                 recorded, hist, responses>>

\* one node of the block in progress is resampled, in any order, reading
\* the joint state as it is now
UpdateNode(i) ==
  /\ InSweep
  /\ i \in pending
  /\ state' = [state EXCEPT ![i + 1] = Resample(m, state, blockKey, i)]
  /\ pending' = pending \ {i}
  /\ UNCHANGED <<cfg, calls, endpoint, phase, m, sched, key, warm, stepsDone,
                 recorded, blk, blockKey, pre, hist, responses>>

\* the block is written back and the next block begins
NextBlock ==
  /\ InSweep
  /\ pending = {}
  /\ blk < Len(m.free_blocks)
  /\ BeginBlock(blk + 1)
  /\ UNCHANGED <<cfg, calls, endpoint, phase, m, sched, state, warm, stepsDone,
                 recorded, hist, responses>>

\* the last block is written back: the sweep is complete
EndSweep ==
  /\ InSweep
  /\ pending = {}
  /\ blk = Len(m.free_blocks)
  /\ blk' = 0
  /\ hist' = Append(hist, state)
  /\ IF phase = "Warmup"
       THEN warm' = warm + 1 /\ stepsDone' = stepsDone
       ELSE stepsDone' = stepsDone + 1 /\ warm' = warm
  /\ UNCHANGED <<cfg, calls, endpoint, phase, m, sched, state, key, recorded,
                 pending, blockKey, pre, responses>>

\* the warmup sweeps are over
EndWarmup ==
  /\ phase = "Warmup"
  /\ ~InSweep
  /\ warm = sched.n_warmup
  /\ phase' = "Sampling"
  /\ UNCHANGED <<cfg, calls, endpoint, m, sched, sampler, responses>>

\* steps_per_sample sweeps are over: the observed state is appended
Record ==
  /\ phase = "Sampling"
  /\ ~InSweep
  /\ Len(recorded) < sched.n_samples
  /\ stepsDone = sched.steps_per_sample
  /\ recorded' = Append(recorded, Snapshot(state, m.observed))
  /\ stepsDone' = 0
  /\ UNCHANGED <<cfg, calls, endpoint, phase, m, sched, state, key, warm, blk,
                 pending, blockKey, pre, hist, responses>>

\* all samples are recorded: sample_states returns
Finish ==
  /\ phase = "Sampling"
  /\ ~InSweep
  /\ Len(recorded) = sched.n_samples
  /\ phase' = "Done"
  /\ UNCHANGED <<cfg, calls, endpoint, m, sched, sampler, responses>>

\* the handler serialises the samples and returns
Respond ==
  /\ phase = "Done"
  /\ phase' = "Idle"
  /\ responses' = Append(responses,
       IF endpoint = "ising" THEN IsingResponse(cfg, m, recorded)
       ELSE StreamResponse(recorded))
  /\ UNCHANGED <<cfg, calls, endpoint, m, sched, sampler>>

Step ==
  \/ StartSweep
  \/ \E i \in 0..(MaxNodes - 1) : UpdateNode(i)
  \/ NextBlock
  \/ EndSweep
  \/ EndWarmup
  \/ Record
  \/ Finish
  \/ Respond

Next ==
  \/ SampleIsing
  \/ SampleIsingError
  \/ SampleIsingStream
  \/ SampleIsingStreamError
  \/ Step

Spec == Init /\ [][Next]_vars

\* a handler runs to completion once it has begun
FairSpec == Spec /\ WF_vars(Step)

\* ---------------------------------------------------------------- claims
Spins == {-1, 1}

IsJointState(s, n) == Len(s) = n /\ \A j \in 1..Len(s) : s[j] \in Spins

IsingResponses == {i \in DOMAIN responses : responses[i].endpoint = "ising" /\ responses[i].success}

StreamResponses == {i \in DOMAIN responses : responses[i].endpoint = "stream" /\ responses[i].success}

\* the handler that ran last has returned its response
Returned(ep) == phase = "Idle" /\ endpoint = ep /\ responses # << >>

Occurrences(seq, x) == Cardinality({k \in DOMAIN seq : seq[k] = x})

\* C1: under sample_ising no state is recorded during warmup, and the i-th
\* recorded state is the joint state after warmup + i * steps_per_sample
\* sweeps; with steps_per_sample = 0 every recorded state is the
\* post-warmup state.
C1_ScheduleExecution ==
  endpoint = "ising" =>
    /\ phase = "Warmup" => recorded = << >>
    /\ \A i \in 1..Len(recorded) :
         LET idx == cfg.n_warmup + i * cfg.steps_per_sample + 1
         IN /\ idx <= Len(hist)
            /\ recorded[i] = hist[idx]
            /\ cfg.steps_per_sample = 0 => recorded[i] = hist[cfg.n_warmup + 1]

C1_Witness ==
  /\ endpoint = "ising"
  /\ phase = "Done"
  /\ cfg.n_warmup = 1
  /\ cfg.steps_per_sample = 1
  /\ Len(recorded) = 2
  /\ recorded[1] # recorded[2]
  /\ recorded[1] # hist[1]

\* C2: a successful sample_ising response carries exactly n_samples
\* recorded states and reports that count, whatever the warmup and
\* steps_per_sample; for n_samples = 0 the sequence is empty.
C2_SampleCount ==
  \A i \in IsingResponses :
    /\ Len(responses[i].samples) = cfg.n_samples
    /\ responses[i].n_samples = cfg.n_samples
    /\ cfg.n_samples = 0 => responses[i].samples = << >>

C2_Witness ==
  /\ Returned("ising")
  /\ cfg.n_samples = 0
  /\ cfg.n_warmup = 1
  /\ cfg.steps_per_sample = 1
  /\ Last(responses).samples = << >>
  /\ Len(hist) = 2

\* C3: two sample_ising runs with the same configuration and seed return
\* identical responses.
C3_Determinism ==
  \A i \in IsingResponses : \A j \in IsingResponses : responses[i] = responses[j]

C3_Witness ==
  /\ Cardinality(IsingResponses) = 2
  /\ Len(responses[1].samples) = 2
  /\ responses[1].samples[1] # responses[1].samples[2]

\* C4: the even/odd blocks of a chain hold every node exactly once between
\* them, and no edge joins two nodes of one block.
C4_BlockPartition ==
  phase # "Idle" =>
    /\ \A j \in DOMAIN m.nodes :
         Occurrences(m.free_blocks[1], m.nodes[j]) + Occurrences(m.free_blocks[2], m.nodes[j]) = 1
    /\ \A b \in DOMAIN m.free_blocks : Range(m.free_blocks[b]) \subseteq Range(m.nodes)
    /\ \A e \in DOMAIN m.edges : \A b \in DOMAIN m.free_blocks :
         ~(m.edges[e][1] \in Range(m.free_blocks[b]) /\ m.edges[e][2] \in Range(m.free_blocks[b]))

C4_Witness ==
  /\ phase = "Sampling"
  /\ Len(m.nodes) = 3
  /\ m.free_blocks = << <<0, 2>>, <<1>> >>
  /\ Len(m.edges) = 2

\* the payload supplies an array whose length does not fit the chain
Mismatch ==
  \/ cfg.weights.has /\ Len(cfg.weights.val) # cfg.n_nodes - 1
  \/ cfg.biases.has /\ Len(cfg.biases.val) # cfg.n_nodes

C6_SpinStates ==
  /\ phase # "Idle" => IsJointState(state, cfg.n_nodes)
  /\ \A k \in DOMAIN hist : IsJointState(hist[k], cfg.n_nodes)
  /\ \A k \in DOMAIN recorded : IsJointState(recorded[k], cfg.n_nodes)
  /\ \A i \in IsingResponses : \A k \in DOMAIN responses[i].samples :
       IsJointState(responses[i].samples[k], cfg.n_nodes)
  /\ \A i \in StreamResponses :
       responses[i].sample.has => IsJointState(responses[i].sample.val, cfg.n_nodes)

C6_Witness ==
  /\ Returned("ising")
  /\ cfg.n_nodes = 3
  /\ cfg.n_warmup = 1
  /\ cfg.steps_per_sample = 1
  /\ Len(Last(responses).samples) = 2
  /\ \E k \in 1..2 : Last(responses).samples[k] \notin {<<1, 1, 1>>, <<-1, -1, -1>>}

ModelInfo == [n_nodes |-> cfg.n_nodes, beta |-> cfg.beta, n_edges |-> cfg.n_nodes - 1]

\* C7 as stated: every successful sample_ising response carries the joint
\* state after all warmup + n_samples * steps_per_sample sweeps as
\* final_state, with the recorded sequence and the metadata.
C7_Original ==
  Returned("ising") =>
    LET r == Last(responses)
    IN /\ Len(hist) - 1 = cfg.n_warmup + cfg.n_samples * cfg.steps_per_sample
       /\ r.final_state = Some(Last(hist))
       /\ r.samples = recorded
       /\ r.model_info = ModelInfo

\* C7 amended: with n_samples > 0 final_state is the last recorded state,
\* which is the joint state after all warmup + n_samples * steps_per_sample
\* sweeps; with n_samples = 0 final_state is None.  The recorded sequence
\* and the metadata are returned in both cases.
C7_FinalState ==
  Returned("ising") =>
    LET r == Last(responses)
    IN /\ Len(hist) - 1 = cfg.n_warmup + cfg.n_samples * cfg.steps_per_sample
       /\ cfg.n_samples > 0 =>
            /\ r.final_state = Some(Last(hist))
            /\ r.final_state = Some(Last(r.samples))
            /\ Len(r.final_state.val) = cfg.n_nodes
       /\ cfg.n_samples = 0 => r.final_state = None
       /\ r.samples = recorded
       /\ r.model_info = ModelInfo

C7_Witness ==
  /\ Returned("ising")
  /\ cfg.n_samples = 2
  /\ cfg.steps_per_sample = 1
  /\ Last(responses).final_state.has
  /\ Last(responses).final_state.val # Last(responses).samples[1]
  /\ Last(responses).model_info.n_edges = 2

\* C8: the sampler starts in Warmup when the warmup count is positive and
\* in Sampling otherwise, records nothing in Warmup, moves only from
\* Warmup to Sampling to Done, enters Done exactly when n_samples states
\* are recorded, sweeps and records nothing more after that, and always
\* reaches Done.
C8_Transitions ==
  /\ phase = "Idle" /\ phase' # "Idle" =>
       /\ endpoint' = "ising" =>
            phase' = IF cfg.n_warmup > 0 THEN "Warmup" ELSE "Sampling"
       /\ endpoint' = "stream" => phase' = "Sampling"
  /\ phase = "Warmup" => phase' \in {"Warmup", "Sampling"}
  /\ phase = "Sampling" => phase' \in {"Sampling", "Done"}
  /\ phase # "Done" /\ phase' = "Done" => Len(recorded) = sched.n_samples
  /\ phase = "Sampling" /\ ~InSweep /\ Len(recorded) = sched.n_samples => phase' = "Done"
  /\ phase = "Done" =>
       /\ phase' \in {"Done", "Idle"}
       /\ recorded' = recorded
       /\ hist' = hist
       /\ state' = state
       /\ blk' = blk

C8_StateMachine ==
  /\ [](phase = "Warmup" => recorded = << >> /\ warm <= sched.n_warmup)
  /\ [](phase = "Done" => Len(recorded) = sched.n_samples)
  /\ [][C8_Transitions]_vars
  /\ (phase \in {"Warmup", "Sampling"} ~> phase = "Done")

C8_Witness ==
  /\ phase = "Done"
  /\ endpoint = "ising"
  /\ sched.n_warmup = 1
  /\ warm = 1
  /\ Len(recorded) = 2
  /\ Len(hist) = 4

\* the joint state a synchronous update of the block in progress gives to
\* the nodes resampled so far
SyncSoFar ==
  LET sync == BlockSync(m, pre, blockKey, m.free_blocks[blk])
  IN [j \in 1..Len(pre) |->
        IF (j - 1) \in Range(m.free_blocks[blk]) \ pending THEN sync[j] ELSE pre[j]]

C9_BlockOrder ==
  /\ blk' # blk =>
       \/ blk = 0 /\ blk' = 1
       \/ blk = 1 /\ blk' = 2 /\ pending = {}
       \/ blk = 2 /\ blk' = 0 /\ pending = {}
  /\ pending' # pending /\ blk' = blk => blockKey' = blockKey /\ pre' = pre

\* C9: within a sweep block 1 is updated, then block 2, each written back
\* before the next begins, and in whatever order the nodes of a block are
\* resampled the joint state is the one the synchronous update gives.
C9_OrderIndependence ==
  /\ [](InSweep => state = SyncSoFar)
  /\ [][C9_BlockOrder]_vars

C9_Witness ==
  /\ blk = 1
  /\ Cardinality(Range(m.free_blocks[1])) = 2
  /\ pending = {}
  /\ state[1] # pre[1]
  /\ state[3] # pre[3]

====
